---- MODULE Spec2Model ----
(***************************************************************************)
(* Submission pipeline of the BESTIE server (src/server.js, the handlers   *)
(* app.post('/api/contact') and app.post('/book') at lines 565-831).       *)
(*                                                                         *)
(* Strings are sequences of one-character strings, so that trim(),         *)
(* toLowerCase(), includes() and the template literals are computed        *)
(* character by character.  A JavaScript value is a record with a type tag *)
(* t: "undefined", "string" (characters in s) or "number" (the decimal     *)
(* n / 10^e, or NaN when nan is TRUE).                                      *)
(*                                                                         *)
(* A handler runs from its entry to its first await without interleaving   *)
(* (one JavaScript turn), so the entry of a handler is one action; the     *)
(* sink promises settle in later turns, and the continuation after         *)
(* `await Promise.allSettled(promises)` is one more action.                *)
(*                                                                         *)
(* clock counts the milliseconds since the start of a run.  Of the         *)
(* clock-derived values the id and the record's timestamp are kept;        *)
(* startTime, and the processingTime and timestamp of the 200 response,    *)
(* which only report the clock, are left out, like the log lines and the   *)
(* HTML layout of the mail.                                                *)
(***************************************************************************)
EXTENDS Integers, Sequences, FiniteSets, TLC

\* ---------------------------------------------------------------- bounds
NumReqs == 2
MaxClock == 1

Reqs == 1..NumReqs

\* ------------------------------------------------------- JavaScript values
Undefined == [t |-> "undefined", s |-> <<>>, n |-> 0, e |-> 0, nan |-> FALSE]
Str(chars) == [t |-> "string", s |-> chars, n |-> 0, e |-> 0, nan |-> FALSE]
NaN == [t |-> "number", s |-> <<>>, n |-> 0, e |-> 0, nan |-> TRUE]

RECURSIVE Pow10(_)
Pow10(k) == IF k = 0 THEN 1 ELSE 10 * Pow10(k - 1)

\* the number m / 10^k in lowest decimal form (2.50 and 2.5 are one value)
RECURSIVE Dec(_, _)
Dec(m, k) ==
  IF k > 0 /\ m % 10 = 0 THEN Dec(m \div 10, k - 1)
  ELSE [t |-> "number", s |-> <<>>, n |-> m, e |-> k, nan |-> FALSE]

Num(i) == Dec(i, 0)

IsString(v) == v.t = "string"
IsNumber(v) == v.t = "number"
IsInteger(v) == IsNumber(v) /\ ~v.nan /\ v.e = 0

\* a >= b for two numbers that are not NaN
NumGeq(a, b) == a.n * Pow10(b.e) >= b.n * Pow10(a.e)

\* ToBoolean, as applied by `!x` and `x || y`
Truthy(v) ==
  CASE v.t = "string" -> v.s # <<>>
    [] v.t = "number" -> ~v.nan /\ v.n # 0
    [] OTHER -> FALSE

\* x || y
OrElse(x, y) == IF Truthy(x) THEN x ELSE y

\* ------------------------------------------------------------- characters
Digits == <<"0", "1", "2", "3", "4", "5", "6", "7", "8", "9">>
DigitChars == {Digits[i] : i \in 1..10}
DigitVal(c) == (CHOOSE i \in 1..10 : Digits[i] = c) - 1
WhiteSpace == {" ", "\t", "\n"}

\* String.prototype.trim
RECURSIVE TrimStart(_)
TrimStart(s) ==
  IF s # <<>> /\ Head(s) \in WhiteSpace THEN TrimStart(Tail(s)) ELSE s

RECURSIVE TrimEnd(_)
TrimEnd(s) ==
  IF s # <<>> /\ s[Len(s)] \in WhiteSpace
  THEN TrimEnd(SubSeq(s, 1, Len(s) - 1)) ELSE s

trim(s) == TrimEnd(TrimStart(s))

\* String.prototype.toLowerCase, on the letters the inputs use
LowerChar(c) ==
  CASE c = "A" -> "a"
    [] c = "B" -> "b"
    [] c = "C" -> "c"
    [] OTHER -> c

toLowerCase(s) == [i \in 1..Len(s) |-> LowerChar(s[i])]

\* String.prototype.includes, for a one-character needle
includes(s, c) == \E i \in 1..Len(s) : s[i] = c

\* Number.prototype.toString of a non-negative integer (template literal)
RECURSIVE NatToString(_)
NatToString(k) ==
  IF k < 10 THEN <<Digits[k + 1]>>
  ELSE NatToString(k \div 10) \o <<Digits[(k % 10) + 1]>>

\* value of a non-empty sequence of decimal digits
RECURSIVE DigitsValue(_)
DigitsValue(s) ==
  IF s = <<>> THEN 0
  ELSE 10 * DigitsValue(SubSeq(s, 1, Len(s) - 1)) + DigitVal(s[Len(s)])

AllDigits(s) == \A i \in 1..Len(s) : s[i] \in DigitChars

\* StringToNumber of the decimal literals [+-]digits[.digits]; "" is 0 and
\* every other text is NaN
UnsignedToNumber(s, sign) ==
  LET dots == {i \in 1..Len(s) : s[i] = "."} IN
  IF dots = {} THEN
    IF s # <<>> /\ AllDigits(s) THEN Num(sign * DigitsValue(s)) ELSE NaN
  ELSE
    LET d == CHOOSE i \in dots : \A j \in dots : i <= j
        ip == SubSeq(s, 1, d - 1)
        fp == SubSeq(s, d + 1, Len(s))
    IN IF AllDigits(ip) /\ AllDigits(fp) /\ Len(ip) + Len(fp) > 0
       THEN Dec(sign * (DigitsValue(ip) * Pow10(Len(fp)) + DigitsValue(fp)),
                Len(fp))
       ELSE NaN

StringToNumber(s) ==
  LET w == trim(s) IN
  IF w = <<>> THEN Num(0)
  ELSE IF Head(w) = "-" THEN UnsignedToNumber(Tail(w), -1)
  ELSE IF Head(w) = "+" THEN UnsignedToNumber(Tail(w), 1)
  ELSE UnsignedToNumber(w, 1)

\* Number(v)
Number(v) ==
  CASE v.t = "undefined" -> NaN
    [] v.t = "string" -> StringToNumber(v.s)
    [] OTHER -> v

\* Math.max(a, b) of two numbers that are not NaN
MathMax(a, b) == IF NumGeq(a, b) THEN a ELSE b

\* isValidEmail of the front end: /^[^\s@]+@[^\s@]+\.[^\s@]+$/
Plain(s, lo, hi) ==
  /\ lo <= hi
  /\ \A k \in lo..hi : s[k] \notin WhiteSpace \cup {"@"}

\* variant: the pattern lacks the "@" part, /^[^\s@]+\.[^\s@]+$/
isValidEmailNoAt(s) ==
  \E j \in 1..Len(s) :
    /\ s[j] = "."
    /\ Plain(s, 1, j - 1)
    /\ Plain(s, j + 1, Len(s))

isValidEmail(s) ==
  \E i \in 1..Len(s) : \E j \in 1..Len(s) :
    /\ s[i] = "@"
    /\ s[j] = "."
    /\ Plain(s, 1, i - 1)
    /\ Plain(s, i + 1, j - 1)
    /\ Plain(s, j + 1, Len(s))

\* ------------------------------------------------------------ request body
\* req.body after destructuring: a field the client did not send is
\* undefined
EmptyBody ==
  [name |-> Undefined, email |-> Undefined, subject |-> Undefined,
   message |-> Undefined, program |-> Undefined, date |-> Undefined,
   participants |-> Undefined, firstName |-> Undefined,
   lastName |-> Undefined, phone |-> Undefined,
   specialRequirements |-> Undefined]

ContactBody(name, email, subject, message) ==
  [EmptyBody EXCEPT !.name = name, !.email = email, !.subject = subject,
                    !.message = message]

BookingBody(program, date, first, last, email, participants, phone, special) ==
  [EmptyBody EXCEPT !.program = program, !.date = date,
                    !.firstName = first, !.lastName = last,
                    !.email = email, !.participants = participants,
                    !.phone = phone, !.specialRequirements = special]

\* ---------------------------------------------------------------- main.js
\* FormData.get(name) of a field the form does not have
Null == [t |-> "null", s |-> <<>>, n |-> 0, e |-> 0, nan |-> FALSE]

\* .substring(0, 1000)
SanitizeLimit == 1000

\* .replace(/[<>]/g, '')
NotAngle(c) == c \notin {"<", ">"}

RemoveAngles(s) == SelectSeq(s, NotAngle)

\* s.substring(0, n)
substring(s, n) == IF Len(s) <= n THEN s ELSE SubSeq(s, 1, n)

\* sanitizeInput(input): trim, then remove < and >, then cut
sanitizeInput(input) ==
  IF ~IsString(input) THEN Str(<<>>)
  ELSE Str(substring(RemoveAngles(trim(input.s)), SanitizeLimit))

\* contactData of handleContactFormSubmission
contactData(form) ==
  ContactBody(sanitizeInput(form.name), sanitizeInput(form.email),
              sanitizeInput(form.subject), sanitizeInput(form.message))

\* the alert validateContactForm shows, "none" when it returns true
ContactFormAlert(data) ==
  IF ~Truthy(data.name) \/ ~Truthy(data.email) \/ ~Truthy(data.subject)
       \/ ~Truthy(data.message)
  THEN "fields"
  ELSE IF ~isValidEmail(data.email.s) THEN "email" ELSE "none"

validateContactForm(data) == ContactFormAlert(data) = "none"

\* the alert validateBookingData shows, "none" when it returns true
BookingDataAlert(data) ==
  IF ~Truthy(data.program) \/ ~Truthy(data.date) \/ ~Truthy(data.firstName)
       \/ ~Truthy(data.lastName) \/ ~Truthy(data.email)
  THEN "fields"
  ELSE IF ~isValidEmail(data.email.s) THEN "email" ELSE "none"

validateBookingData(data) == BookingDataAlert(data) = "none"

\* ----------------------------------------------------------- identifiers
ContactPrefix == <<"c", "o", "n", "t", "a", "c", "t", "_">>
BookPrefix == <<"b", "o", "o", "k", "_">>

\* variant: the contact id is minted from the clock in seconds
contactIdSeconds(now) == ContactPrefix \o NatToString(now \div 1000)

\* `contact_${Date.now()}`
contactId(now) == ContactPrefix \o NatToString(now)

\* variant: the booking id is minted with the prefix booking_
bookingIdLong(now) ==
  <<"b", "o", "o", "k", "i", "n", "g", "_">> \o NatToString(now)

\* `book_${Date.now()}`
bookingId(now) == BookPrefix \o NatToString(now)

\* ------------------------------------------------------------- validation
\* variant: the check of the required contact fields forgets message
MissingContactFieldsNoMessage(b) ==
  ~Truthy(b.name) \/ ~Truthy(b.email) \/ ~Truthy(b.subject)

\* if (!name || !email || !subject || !message)
MissingContactFields(b) ==
  ~Truthy(b.name) \/ ~Truthy(b.email) \/ ~Truthy(b.subject)
    \/ ~Truthy(b.message)

\* if (!program || !date || !firstName || !lastName || !email)
MissingBookingFields(b) ==
  ~Truthy(b.program) \/ ~Truthy(b.date) \/ ~Truthy(b.firstName)
    \/ ~Truthy(b.lastName) \/ ~Truthy(b.email)

\* email.includes('@') raises a TypeError when email is a number
IncludesThrows(b) == ~IsString(b.email)

\* variant: the email test is left out
InvalidEmailNever(b) == FALSE

\* if (!email.includes('@'))
InvalidEmail(b) == ~includes(b.email.s, "@")

\* x.trim() raises a TypeError when x is not a string
ContactBuildThrows(b) ==
  ~IsString(b.name) \/ ~IsString(b.email) \/ ~IsString(b.subject)
    \/ ~IsString(b.message)

BookingBuildThrows(b) ==
  \/ ~IsString(b.program) \/ ~IsString(b.firstName)
  \/ ~IsString(b.lastName) \/ ~IsString(b.email)
  \/ ~IsString(OrElse(b.phone, Str(<<"x">>)))
  \/ ~IsString(OrElse(b.specialRequirements, Str(<<"x">>)))

\* Math.max(1, Number(participants) || 1)
participantsNum(b) == MathMax(Num(1), OrElse(Number(b.participants), Num(1)))

\* Number(participants)||1, the booking record of the first /book definition
participantsFirst(b) == OrElse(Number(b.participants), Num(1))

NotProvided == <<"N", "o", "t", " ", "p", "r", "o", "v", "i", "d", "e", "d">>
None == <<"N", "o", "n", "e">>

\* ----------------------------------------------------------------- records
NoRecord == [type |-> "none"]

ContactSheetsData(b, id, now) ==
  [type |-> "contact",
   name |-> trim(b.name.s),
   email |-> toLowerCase(trim(b.email.s)),
   subject |-> trim(b.subject.s),
   message |-> trim(b.message.s),
   timestamp |-> now,
   contactId |-> id,
   source |-> "bestie.co.ke"]

BookingSheetsData(b, id, now) ==
  [type |-> "booking",
   program |-> trim(b.program.s),
   date |-> b.date,
   participants |-> participantsNum(b),
   firstName |-> trim(b.firstName.s),
   lastName |-> trim(b.lastName.s),
   email |-> toLowerCase(trim(b.email.s)),
   phone |-> trim(OrElse(b.phone, Str(NotProvided)).s),
   specialRequirements |-> trim(OrElse(b.specialRequirements, Str(None)).s),
   timestamp |-> now,
   bookingId |-> id,
   source |-> "bestie.co.ke"]

\* the fields sendMail is called with (the HTML layout is left out)
NoMail == [type |-> "none"]

ContactMail(b, id) ==
  [type |-> "contact",
   replyTo |-> b.email.s,
   contactId |-> id,
   name |-> b.name.s,
   email |-> b.email.s,
   subject |-> b.subject.s,
   message |-> b.message.s]

BookingMail(b, id) ==
  [type |-> "booking",
   replyTo |-> b.email.s,
   bookingId |-> id,
   program |-> b.program.s,
   participants |-> participantsNum(b),
   firstName |-> b.firstName.s,
   lastName |-> b.lastName.s,
   email |-> b.email.s,
   phone |-> OrElse(b.phone, Str(NotProvided)).s,
   specialRequirements |-> b.specialRequirements]

\* --------------------------------------------------------------- responses
NoResponse == [status |-> 0]

ContactMissingResponse ==
  [status |-> 400, success |-> FALSE,
   error |-> "All fields are required: name, email, subject, message"]

BookingMissingResponse ==
  [status |-> 400, success |-> FALSE,
   error |-> "Missing required fields: program, date, firstName, lastName, email"]

InvalidEmailResponse ==
  [status |-> 400, success |-> FALSE,
   error |-> "Please provide a valid email address"]

ContactErrorResponse(id) ==
  [status |-> 500, success |-> FALSE,
   error |-> "Server error processing your request", contactId |-> id]

BookingErrorResponse(id) ==
  [status |-> 500, success |-> FALSE,
   error |-> "Server error processing your booking", bookingId |-> id]

\* ------------------------------------------------------------------ state
VARIABLES
  req,          \* per request slot: the request and its handler invocation
  transporter,  \* TRUE iff the email transport was created at process start
  clock,        \* milliseconds elapsed since the start of the run
  page,         \* the browser page with the contact or the booking form
  faq           \* the FAQ items of a page

browser == <<page, faq>>

vars == <<req, transporter, clock, page, faq>>

\* a sink promise: what the call did (outcome), whether the promise has
\* settled, whether it was rejected, and the success flag of its value
NoResult ==
  [success |-> FALSE, settled |-> FALSE, outcome |-> "none",
   rejected |-> FALSE]

\* no request on this slot
NoRequest ==
  [pc |-> "none", kind |-> "none", body |-> EmptyBody, id |-> <<>>,
   idClock |-> 0, fault |-> "none", sheetsData |-> NoRecord, mail |-> NoMail,
   webhook |-> "none", sheets |-> NoResult, email |-> "none",
   emailResult |-> NoResult, webhookCalls |-> 0, emailCalls |-> 0,
   resp |-> NoResponse, respCount |-> 0]

\* a request a client has sent and the server has not yet handled
Sent(kind, body) == [NoRequest EXCEPT !.pc = "sent", !.kind = kind, !.body = body]

\* variant: emailSent reports whether the mail was delivered
emailSentIfDelivered(q) == q.emailResult.success

\* emailSent: !!transporter
emailSent(q) == transporter

ContactSuccessResponse(q) ==
  [status |-> 200, success |-> TRUE,
   contactId |-> q.id,
   message |-> "Thank you for your message! We will get back to you soon.",
   emailSent |-> emailSent(q)]

\* variant: the details report Number(participants)||1, without Math.max
BookingDetailsFirst(b) ==
  [program |-> b.program, date |-> b.date,
   participants |-> participantsFirst(b),
   name |-> b.firstName.s \o <<" ">> \o b.lastName.s]

\* details of the booking response
BookingDetails(b) ==
  [program |-> b.program, date |-> b.date,
   participants |-> participantsNum(b),
   name |-> b.firstName.s \o <<" ">> \o b.lastName.s]

BookingSuccessResponse(q) ==
  [status |-> 200, success |-> TRUE,
   bookingId |-> q.id,
   message |-> "Booking received successfully! We will confirm your reservation shortly.",
   details |-> BookingDetails(q.body),
   emailSent |-> emailSent(q)]

\* variant: a sink that failed makes the handler answer 500
ReplyIfDelivered(q) ==
  IF q.sheets.success /\ (q.email = "none" \/ q.emailResult.success)
  THEN IF q.kind = "contact" THEN ContactSuccessResponse(q)
       ELSE BookingSuccessResponse(q)
  ELSE IF q.kind = "contact" THEN ContactErrorResponse(q.id)
       ELSE BookingErrorResponse(q.id)

\* res.json(...) after the await: the same body whatever the sinks returned
Reply(q) ==
  IF q.kind = "contact" THEN ContactSuccessResponse(q)
  ELSE BookingSuccessResponse(q)

\* variant: the response is sent and the handler does not end
FinishNoReturn(q, response) ==
  [q EXCEPT !.resp = response, !.respCount = @ + 1]

\* res.status(...).json(...) followed by the end of the handler
Finish(q, response) ==
  [q EXCEPT !.pc = "done", !.resp = response, !.respCount = @ + 1]

\* variant: the statement that raises comes after fetch(...) was called
CatchAfterFetch(q, stage, response) ==
  Finish([q EXCEPT !.fault = stage, !.webhook = "pending",
                   !.webhookCalls = @ + 1], response)

\* catch (err) { res.status(500).json(...) }, entered from the statement
\* that raised: the email test ("validation") or the record ("record")
Catch(q, stage, response) == Finish([q EXCEPT !.fault = stage], response)

\* variant: the email promise is pushed whether or not a transporter exists
DispatchAlways(q, data, mail) ==
  [q EXCEPT !.pc = "awaiting",
            !.sheetsData = data,
            !.webhook = "pending",
            !.webhookCalls = @ + 1,
            !.mail = mail,
            !.email = "pending",
            !.emailCalls = @ + 1]

\* variant: the webhook call is awaited before the email call is made
DispatchSequential(q, data, mail) ==
  [q EXCEPT !.pc = "awaiting",
            !.sheetsData = data,
            !.webhook = "pending",
            !.webhookCalls = @ + 1]

\* promises.push(fetch(...)); if (transporter) promises.push(sendMail(...));
\* await Promise.allSettled(promises)
Dispatch(q, data, mail) ==
  [q EXCEPT !.pc = "awaiting",
            !.sheetsData = data,
            !.webhook = "pending",
            !.webhookCalls = @ + 1,
            !.mail = IF transporter THEN mail ELSE NoMail,
            !.email = IF transporter THEN "pending" ELSE "none",
            !.emailCalls = IF transporter THEN @ + 1 ELSE @]

\* variant: the handler resumes as soon as one promise has settled
AnySettled(q) == q.webhook # "pending" \/ q.email # "pending"

\* variant: the join waits for an email promise even when none was pushed
AllSettledBoth(q) == q.webhook = "settled" /\ q.email = "settled"

\* Promise.allSettled(promises) is fulfilled once no promise is pending
AllSettled(q) == q.webhook # "pending" /\ q.email # "pending"

\* the handler of POST /api/contact from its entry to its first await
ContactHandler(q, now) ==
  LET b == q.body
      id == contactId(now)
      m == [q EXCEPT !.id = id, !.idClock = now]
  IN IF MissingContactFields(b) THEN Finish(m, ContactMissingResponse)
     ELSE IF IncludesThrows(b) THEN Catch(m, "validation", ContactErrorResponse(id))
     ELSE IF InvalidEmail(b) THEN Finish(m, InvalidEmailResponse)
     ELSE IF ContactBuildThrows(b) THEN Catch(m, "record", ContactErrorResponse(id))
     ELSE Dispatch(m, ContactSheetsData(b, id, now), ContactMail(b, id))

\* the handler of POST /book from its entry to its first await
BookingHandler(q, now) ==
  LET b == q.body
      id == bookingId(now)
      m == [q EXCEPT !.id = id, !.idClock = now]
  IN IF MissingBookingFields(b) THEN Finish(m, BookingMissingResponse)
     ELSE IF IncludesThrows(b) THEN Catch(m, "validation", BookingErrorResponse(id))
     ELSE IF InvalidEmail(b) THEN Finish(m, InvalidEmailResponse)
     ELSE IF BookingBuildThrows(b) THEN Catch(m, "record", BookingErrorResponse(id))
     ELSE Dispatch(m, BookingSheetsData(b, id, now), BookingMail(b, id))

\* what a sink call can do: the webhook answers with a success status or
\* with another status, or fetch / response.text() rejects (transport error,
\* timeout); sendMail is fulfilled or rejects
WebhookOutcomes == {"2xx", "non2xx", "rejected"}
EmailOutcomes == {"sent", "rejected"}

\* variant: the fetch chain without its .catch(...), a failed call leaves the
\* promise rejected
SheetsResultNoCatch(o) ==
  [success |-> o # "rejected", settled |-> TRUE, outcome |-> o,
   rejected |-> o = "rejected"]

\* .then(response => response.text()).then(...) / .catch(...): the status of
\* the response is not looked at, and .catch turns a rejection into a value
SheetsResult(o) ==
  [success |-> o # "rejected", settled |-> TRUE, outcome |-> o,
   rejected |-> FALSE]

\* .then(info => ...) / .catch(...)
EmailResult(o) ==
  [success |-> o = "sent", settled |-> TRUE, outcome |-> o,
   rejected |-> FALSE]

\* ----------------------------------------------------------------- actions
\* Date.now(): the runs start at millisecond 9, so that ids of one and of
\* two digits are minted
DateNow == 9 + clock

\* request slots are used in the order the requests arrive
NextToArrive(r) == \A p \in Reqs : p < r => req[p].pc # "sent"

ContactEntry(r) ==
  /\ req[r].pc = "sent"
  /\ req[r].kind = "contact"
  /\ NextToArrive(r)
  /\ req' = [req EXCEPT ![r] = ContactHandler(req[r], DateNow)]
  /\ UNCHANGED <<transporter, clock, browser>>

BookingEntry(r) ==
  /\ req[r].pc = "sent"
  /\ req[r].kind = "booking"
  /\ NextToArrive(r)
  /\ req' = [req EXCEPT ![r] = BookingHandler(req[r], DateNow)]
  /\ UNCHANGED <<transporter, clock, browser>>

SettleWebhook(r) ==
  /\ req[r].webhook = "pending"
  /\ \E o \in WebhookOutcomes :
       req' = [req EXCEPT ![r].webhook = "settled",
                          ![r].sheets = SheetsResult(o)]
  /\ UNCHANGED <<transporter, clock, browser>>

\* variant: a handler drops the shared transporter when its email call fails
SettleEmailDropsTransport(r) ==
  /\ req[r].email = "pending"
  /\ \E o \in EmailOutcomes :
       /\ req' = [req EXCEPT ![r].email = "settled",
                             ![r].emailResult = EmailResult(o)]
       /\ transporter' = (transporter /\ o = "sent")
  /\ UNCHANGED <<clock, browser>>

SettleEmail(r) ==
  /\ req[r].email = "pending"
  /\ \E o \in EmailOutcomes :
       req' = [req EXCEPT ![r].email = "settled",
                          ![r].emailResult = EmailResult(o)]
  /\ UNCHANGED <<transporter, clock, browser>>

\* the continuation of a handler after `await Promise.allSettled(promises)`
Respond(r) ==
  /\ req[r].pc = "awaiting"
  /\ AllSettled(req[r])
  /\ req' = [req EXCEPT ![r] = Finish(req[r], Reply(req[r]))]
  /\ UNCHANGED <<transporter, clock, browser>>

Tick ==
  /\ clock < MaxClock
  /\ clock' = clock + 1
  /\ UNCHANGED <<req, transporter, browser>>

Next ==
  \/ \E r \in Reqs : ContactEntry(r)
  \/ \E r \in Reqs : BookingEntry(r)
  \/ \E r \in Reqs : SettleWebhook(r)
  \/ \E r \in Reqs : SettleEmail(r)
  \/ \E r \in Reqs : Respond(r)
  \/ Tick

\* ------------------------------------------------------------ rate limiter
\* app.use(limiter): the answer of express-rate-limit to a request over the
\* limit, sent before the request reaches a handler
RateLimitResponse ==
  [status |-> 429,
   error |-> "Too many requests from this IP, please try again later.",
   retryAfter |-> 900]

RateLimited(r) ==
  /\ req[r].pc = "sent"
  /\ NextToArrive(r)
  /\ req' = [req EXCEPT ![r] = Finish(req[r], RateLimitResponse)]
  /\ UNCHANGED <<transporter, clock, browser>>

\* ---------------------------------------------------------------- the page
\* the submit button of the contact form
IdleButton == [disabled |-> FALSE, textContent |-> "Send Message"]
SendingButton == [disabled |-> TRUE, textContent |-> "Sending..."]

\* resetContactButton(button)
resetContactButton(button) ==
  [button EXCEPT !.disabled = FALSE, !.textContent = "Send Message"]

\* no page is open
NoPage ==
  [phase |-> "closed", kind |-> "none", form |-> EmptyBody,
   data |-> EmptyBody, button |-> IdleButton, formShown |-> TRUE,
   alert |-> "none", pending |-> {}, confirmation |-> <<>>]

\* a page with its form filled in
Opened(kind, form) ==
  [NoPage EXCEPT !.phase = "idle", !.kind = kind, !.form = form]

\* the request slot of the fetch of the page: a page posts one request in a
\* run, on the first slot
FreeSlot(r) == r = 1 /\ req[r].pc = "none"

\* contactForm.reset(): the fields go back to empty
ResetForm == ContactBody(Str(<<>>), Str(<<>>), Str(<<>>), Str(<<>>))

\* handleContactFormSubmission up to the fetch: the button is disabled, the
\* fields are sanitized and validated; a form that fails gets an alert and the
\* button back, another is posted to /api/contact
SubmitContact ==
  /\ page.kind = "contact"
  /\ page.phase = "idle"
  /\ LET data == contactData(page.form)
         busy == [page EXCEPT !.button = SendingButton, !.data = data]
     IN IF ~validateContactForm(data)
        THEN /\ page' = [busy EXCEPT !.alert = ContactFormAlert(data),
                                     !.button = resetContactButton(@)]
             /\ req' = req
        ELSE \E r \in Reqs :
               /\ FreeSlot(r)
               /\ req' = [req EXCEPT ![r] = Sent("contact", data)]
               /\ page' = [busy EXCEPT !.phase = "inflight",
                                       !.pending = {r}]
  /\ UNCHANGED <<transporter, clock, faq>>

\* catch (err): fetch or res.text() was rejected
ContactFetchFails ==
  /\ page.kind = "contact"
  /\ page.phase = "inflight"
  /\ page' = [page EXCEPT !.phase = "idle", !.pending = {},
                          !.alert = "network",
                          !.button = resetContactButton(@)]
  /\ UNCHANGED <<req, transporter, clock, faq>>

\* variant: the branch of a response that is not ok returns without
\* resetContactButton
ContactResponseNoReset ==
  /\ page.kind = "contact"
  /\ page.phase = "inflight"
  /\ \E r \in page.pending :
       /\ req[r].pc = "done"
       /\ IF req[r].resp.status # 200
          THEN page' = [page EXCEPT !.phase = "idle", !.pending = {},
                                    !.alert = "server"]
          ELSE page' = [page EXCEPT !.phase = "shown", !.pending = {},
                                    !.formShown = FALSE]
  /\ UNCHANGED <<req, transporter, clock, faq>>

\* the continuation after await fetch(...): a response that is not ok gets an
\* alert and the button back, an ok one hides the form, shows the success
\* message and sets the timer of 5 s
ContactResponse ==
  /\ page.kind = "contact"
  /\ page.phase = "inflight"
  /\ \E r \in page.pending :
       /\ req[r].pc = "done"
       /\ IF req[r].resp.status # 200
          THEN page' = [page EXCEPT !.phase = "idle", !.pending = {},
                                    !.alert = "server",
                                    !.button = resetContactButton(@)]
          ELSE page' = [page EXCEPT !.phase = "shown", !.pending = {},
                                    !.formShown = FALSE]
  /\ UNCHANGED <<req, transporter, clock, faq>>

\* the callback of setTimeout(..., 5000)
ContactTimer ==
  /\ page.kind = "contact"
  /\ page.phase = "shown"
  /\ page' = [page EXCEPT !.phase = "idle", !.form = ResetForm,
                          !.formShown = TRUE,
                          !.button = resetContactButton(@)]
  /\ UNCHANGED <<req, transporter, clock, faq>>

\* the click handler of #book-later up to the fetch: bookingData is the form
\* as it is; data that fails validateBookingData gets an alert, other data is
\* posted to /book
SubmitBooking ==
  /\ page.kind = "booking"
  /\ page.phase # "closed"
  /\ LET data == page.form
     IN IF ~validateBookingData(data)
        THEN /\ page' = [page EXCEPT !.data = data,
                                     !.alert = BookingDataAlert(data)]
             /\ req' = req
        ELSE \E r \in Reqs :
               /\ FreeSlot(r)
               /\ req' = [req EXCEPT ![r] = Sent("booking", data)]
               /\ page' = [page EXCEPT !.data = data,
                                       !.pending = @ \cup {r}]
  /\ UNCHANGED <<transporter, clock, faq>>

\* catch (err): fetch or response.json() was rejected
BookingFetchFails(r) ==
  /\ page.kind = "booking"
  /\ r \in page.pending
  /\ page' = [page EXCEPT !.pending = @ \ {r}, !.alert = "network"]
  /\ UNCHANGED <<req, transporter, clock, faq>>

\* the continuation after await response.json(): result.success hides the
\* form and shows the confirmation number, another result gets an alert
BookingResponse(r) ==
  /\ page.kind = "booking"
  /\ r \in page.pending
  /\ req[r].pc = "done"
  /\ IF req[r].resp.status = 200 /\ req[r].resp.success
     THEN page' = [page EXCEPT !.pending = @ \ {r}, !.phase = "confirmed",
                               !.formShown = FALSE,
                               !.confirmation = req[r].resp.bookingId]
     ELSE page' = [page EXCEPT !.pending = @ \ {r}, !.alert = "failed"]
  /\ UNCHANGED <<req, transporter, clock, faq>>

\* the server and one page in front of it
NextSite ==
  \/ Next
  \/ \E r \in Reqs : RateLimited(r)
  \/ SubmitContact
  \/ ContactFetchFails
  \/ ContactResponse
  \/ ContactTimer
  \/ SubmitBooking
  \/ \E r \in Reqs : BookingFetchFails(r)
  \/ \E r \in Reqs : BookingResponse(r)

\* ------------------------------------------------------------------ the FAQ
NumFaq == 4

FaqItems == 1..NumFaq

\* no FAQ on the page
NoFaq == [active |-> {}, withQuestion |-> {}, clicked |-> 0]

\* variant: the click toggles the item and leaves the other items alone
FaqClickToggleOnly(i) ==
  /\ i \in faq.withQuestion
  /\ faq' = [faq EXCEPT !.clicked = i,
                        !.active = IF i \in @ THEN @ \ {i} ELSE @ \cup {i}]
  /\ UNCHANGED <<req, transporter, clock, page>>

\* the click listener of the .faq-question of item i: every item loses the
\* class active, and item i gets it when it did not have it
FaqClick(i) ==
  /\ i \in faq.withQuestion
  /\ faq' = [faq EXCEPT !.clicked = i,
                        !.active = IF i \in @ THEN {} ELSE {i}]
  /\ UNCHANGED <<req, transporter, clock, page>>

NextFaq == \E i \in FaqItems : FaqClick(i)

\* ------------------------------------------------------------------ inputs
Ann == <<"A", "n", "n">>
Hi == <<"H", "i">>
Hello == <<"H", "e", "l", "l", "o">>
AnnAtXCom == <<"a", "n", "n", "@", "x", ".", "c", "o", "m">>
Bestie == <<"b", "e", "s", "t", "i", "e">>
Jan1 == <<"2", "0", "2", "5", "-", "0", "1", "-", "0", "1">>
AAtBCom == <<"a", "@", "b", ".", "c", "o", "m">>

\* values of a required text field: absent, empty, blank, text, numbers
FieldValues ==
  {Undefined, Str(<<>>), Str(<<" ">>), Str(Ann), Str(<<" ", "B", "o", " ">>),
   Num(0), Num(5)}

EmailValues ==
  {Undefined, Str(<<>>), Str(<<"a", "b">>), Str(<<"@">>),
   Str(<<"a", "@", "b">>), Str(<<"a", "@", "b", ".", "c">>),
   Str(<<" ", "A", "@", "B", ".", "c", " ">>),
   Str(<<"a", " ", "b", "@", "c", ".", "d">>), Num(5)}

ParticipantValues ==
  {Undefined, Str(<<"a", "b", "c">>), Str(<<>>), Str(<<"3">>),
   Str(<<" ", "1", "2", " ">>), Str(<<"2", ".", "5">>), Str(<<"-", "5">>),
   Str(<<"0">>), Str(<<"3", ".", "0">>), Num(0), Num(-5), Num(3),
   Dec(25, 1)}

PhoneValues ==
  {Undefined, Str(<<>>), Str(<<" ">>), Str(<<" ", "0", "7", "1", "2">>),
   Num(7)}

RequirementValues ==
  {Undefined, Str(<<>>), Str(None), Str(<<"v", "e", "g", " ">>)}

ShortValues == {Undefined, Str(<<>>), Str(<<"A">>), Num(5)}

ContactSubmissions ==
  {<<"contact", ContactBody(n, e, s, m)>> :
     n \in FieldValues, e \in EmailValues,
     s \in {Undefined, Str(<<>>), Str(Hi), Num(5)},
     m \in {Undefined, Str(<<>>), Str(<<" ">>), Str(Hello)}}

BookingSubmissions ==
  {<<"booking", BookingBody(p, d, f, l, e, Undefined, Undefined, Undefined)>> :
     p \in ShortValues, d \in {Undefined, Str(<<>>), Str(Jan1)},
     f \in ShortValues, l \in ShortValues, e \in EmailValues}
  \cup
  {<<"booking", BookingBody(Str(Bestie), Str(Jan1), Str(<<"A">>),
                            Str(<<"B">>), Str(AAtBCom), n, ph, sr)>> :
     n \in ParticipantValues, ph \in PhoneValues, sr \in RequirementValues}

\* the submissions of the runs with several requests in flight
FewSubmissions ==
  {<<"contact", ContactBody(Str(Ann), Str(AnnAtXCom), Str(Hi), Str(Hello))>>,
   <<"contact", ContactBody(Str(Ann), Undefined, Undefined, Undefined)>>,
   <<"contact", ContactBody(Str(Ann), Str(AnnAtXCom), Num(5), Str(Hello))>>,
   <<"booking", BookingBody(Str(Bestie), Str(Jan1), Str(<<"A">>),
                            Str(<<"B">>), Str(AAtBCom), Undefined, Undefined,
                            Undefined)>>,
   <<"booking", BookingBody(Str(Bestie), Str(Jan1), Str(<<"A">>),
                            Str(<<"B">>), Str(<<"a", "b">>), Str(<<"3">>),
                            Undefined, Undefined)>>}

\* --------------------------------------------------------- specifications
\* several requests in flight, each one of FewSubmissions
Init ==
  /\ req \in [Reqs -> {Sent(x[1], x[2]) : x \in FewSubmissions}]
  /\ transporter \in BOOLEAN
  /\ clock = 0
  /\ page = NoPage
  /\ faq = NoFaq

Spec == Init /\ [][Next]_vars

\* one request, drawn from all the submissions
InitWide ==
  /\ \E x \in ContactSubmissions \cup BookingSubmissions :
       req = [r \in Reqs |-> IF r = 1 THEN Sent(x[1], x[2]) ELSE NoRequest]
  /\ transporter \in BOOLEAN
  /\ clock = 0
  /\ page = NoPage
  /\ faq = NoFaq

SpecWide == InitWide /\ [][Next]_vars

\* the submissions of the runs that handle one body twice
PairSubmissions ==
  {<<"contact", ContactBody(Str(Ann), Str(AnnAtXCom), Str(Hi), Str(Hello))>>,
   <<"contact", ContactBody(Str(<<" ", "B", "o", " ">>),
                            Str(<<" ", "A", "@", "B", ".", "c", " ">>),
                            Str(Hi), Str(<<" ">>))>>,
   <<"contact", ContactBody(Str(Ann), Undefined, Undefined, Undefined)>>,
   <<"contact", ContactBody(Str(Ann), Str(<<"a", "b">>), Str(Hi), Str(Hello))>>,
   <<"contact", ContactBody(Str(Ann), Str(AnnAtXCom), Num(5), Str(Hello))>>,
   <<"contact", ContactBody(Str(Ann), Num(5), Str(Hi), Str(Hello))>>,
   <<"booking", BookingBody(Str(Bestie), Str(Jan1), Str(<<"A">>),
                            Str(<<"B">>), Str(AAtBCom), Undefined, Undefined,
                            Undefined)>>,
   <<"booking", BookingBody(Str(Bestie), Str(Jan1), Str(<<"A">>),
                            Str(<<"B">>), Str(AAtBCom), Str(<<"2", ".", "5">>),
                            Str(<<" ">>), Str(<<"v", "e", "g", " ">>))>>,
   <<"booking", BookingBody(Str(Bestie), Undefined, Str(<<"A">>),
                            Str(<<"B">>), Str(AAtBCom), Str(<<"3">>),
                            Undefined, Undefined)>>,
   <<"booking", BookingBody(Str(Bestie), Str(Jan1), Str(<<"A">>),
                            Str(<<"B">>), Str(AAtBCom), Undefined, Num(7),
                            Undefined)>>}

\* two requests with the same kind and body, handled by the same process
InitPair ==
  /\ \E x \in PairSubmissions :
       req = [r \in Reqs |-> IF r <= 2 THEN Sent(x[1], x[2]) ELSE NoRequest]
  /\ transporter \in BOOLEAN
  /\ clock = 0
  /\ page = NoPage
  /\ faq = NoFaq

SpecPair == InitPair /\ [][Next]_vars

\* one request, drawn from PairSubmissions
InitOne ==
  /\ \E x \in PairSubmissions :
       req = [r \in Reqs |-> IF r = 1 THEN Sent(x[1], x[2]) ELSE NoRequest]
  /\ transporter \in BOOLEAN
  /\ clock = 0
  /\ page = NoPage
  /\ faq = NoFaq

\* the runs in which the event loop runs every callback that is ready (the
\* handler entry, the continuation after the await) and every sink call that
\* was started settles at some time; the clock is under no obligation
FairOne ==
  /\ InitOne /\ [][Next]_vars
  /\ \A r \in Reqs :
       /\ WF_vars(ContactEntry(r))
       /\ WF_vars(BookingEntry(r))
       /\ WF_vars(SettleWebhook(r))
       /\ WF_vars(SettleEmail(r))
       /\ WF_vars(Respond(r))

\* two requests in flight, each one of FewSubmissions
InitTwo ==
  /\ \E x \in FewSubmissions : \E y \in FewSubmissions :
       req = [r \in Reqs |-> IF r = 1 THEN Sent(x[1], x[2])
                             ELSE IF r = 2 THEN Sent(y[1], y[2])
                             ELSE NoRequest]
  /\ transporter \in BOOLEAN
  /\ clock = 0
  /\ page = NoPage
  /\ faq = NoFaq

SpecTwo == InitTwo /\ [][Next]_vars

\* what a visitor types into the forms
LongMessage ==
  [i \in 1..(SanitizeLimit + 1) |-> IF i = SanitizeLimit THEN " " ELSE "x"]

FormNames ==
  {Null, Str(<<>>), Str(<<" ">>), Str(Ann), Str(<<"<", " ", "a">>),
   Str(<<"<", "b", ">">>), Str(<<"<", ">">>)}

FormEmails ==
  {Str(<<>>), Str(<<"a", "b">>), Str(<<"a", ".", "b">>),
   Str(<<"a", "@", "b">>), Str(<<"a", "@", "b", ".", "c">>),
   Str(<<" ", "A", "@", "B", ".", "c", " ">>),
   Str(<<"<", "a", "@", "b", ".", "c", ">">>),
   Str(<<"a", " ", "b", "@", "c", ".", "d">>),
   Str(<<"a", "@", "@", "b", ".", "c">>)}

ContactForms ==
  {<<"contact", ContactBody(n, e, s, m)>> :
     n \in FormNames, e \in FormEmails, s \in {Str(<<>>), Str(Hi)},
     m \in {Str(Hello), Str(LongMessage)}}

BookingForms ==
  {<<"booking", BookingBody(p, d, f, Str(<<"B">>), e, n, Str(<<>>), Str(<<>>))>> :
     p \in {Str(<<>>), Str(Bestie)}, d \in {Str(<<>>), Str(Jan1)},
     f \in {Str(<<>>), Str(<<" ">>), Str(<<"A">>)}, e \in FormEmails,
     n \in {Str(<<>>), Str(<<"2">>)}}

\* the server and one page with a filled-in form in front of it
InitSite ==
  /\ req = [r \in Reqs |-> NoRequest]
  /\ transporter \in BOOLEAN
  /\ clock = 0
  /\ \E x \in ContactForms \cup BookingForms : page = Opened(x[1], x[2])
  /\ faq = NoFaq

SpecSite == InitSite /\ [][NextSite]_vars

\* a page with FAQ items, any of them open at first
InitFaq ==
  /\ req = [r \in Reqs |-> NoRequest]
  /\ transporter = FALSE
  /\ clock = 0
  /\ page = NoPage
  /\ faq \in [active : SUBSET FaqItems, withQuestion : SUBSET FaqItems,
              clicked : {0}]

SpecFaq == InitFaq /\ [][NextFaq]_vars

\* a few forms: a contact form the page accepts, one it rejects, a booking
FewForms ==
  {<<"contact", ContactBody(Str(Ann), Str(AnnAtXCom), Str(Hi), Str(Hello))>>,
   <<"contact", ContactBody(Str(Ann), Str(<<"a", "b">>), Str(Hi), Str(Hello))>>,
   <<"booking", BookingBody(Str(Bestie), Str(Jan1), Str(<<"A">>),
                            Str(<<"B">>), Str(AAtBCom), Str(<<"2">>),
                            Str(<<>>), Str(<<>>))>>}

InitFewSite ==
  /\ req = [r \in Reqs |-> NoRequest]
  /\ transporter \in BOOLEAN
  /\ clock = 0
  /\ \E x \in FewForms : page = Opened(x[1], x[2])
  /\ faq = NoFaq

\* the runs in which the fetch of the contact page settles (with a response
\* or with an error) and the timer of the success message fires
FairSite ==
  /\ InitFewSite /\ [][NextSite]_vars
  /\ WF_vars(ContactResponse \/ ContactFetchFails)
  /\ WF_vars(ContactTimer)

TypeOK ==
  /\ transporter \in BOOLEAN
  /\ clock \in 0..MaxClock
  /\ \A r \in Reqs : req[r].pc \in {"none", "sent", "awaiting", "done"}

\* ------------------------------------------------------------------ claims
Handled(q) == q.pc \in {"awaiting", "done"}

RequiredFields(kind) ==
  IF kind = "contact" THEN {"name", "email", "subject", "message"}
  ELSE {"program", "date", "firstName", "lastName", "email"}

AbsentOrEmpty(v) == v = Undefined \/ v = Str(<<>>)

LacksRequired(q) ==
  \E f \in RequiredFields(q.kind) : AbsentOrEmpty(q.body[f])

\* C1: a contact or booking submission with a required field of its kind
\* absent or empty is answered 400 with success:false, and no webhook call and
\* no email call is made for it.
C1_MissingFieldsRejected ==
  \A r \in Reqs :
    Handled(req[r]) /\ LacksRequired(req[r]) =>
      /\ req[r].pc = "done"
      /\ req[r].resp.status = 400
      /\ req[r].resp.success = FALSE
      /\ req[r].webhookCalls = 0
      /\ req[r].emailCalls = 0

C1_Witness ==
  \E r \in Reqs :
    /\ req[r].pc = "done"
    /\ req[r].kind = "booking"
    /\ req[r].body.email = Str(<<>>)
    /\ \A f \in RequiredFields("booking") \ {"email"} : Truthy(req[r].body[f])
    /\ req[r].resp.status = 400
    /\ transporter

\* C2: a submission whose email is not of the shape x@y.z is answered 400,
\* whatever its other fields are.
C2_EmailShapeGate ==
  \A r \in Reqs :
    /\ Handled(req[r])
    /\ IsString(req[r].body.email)
    /\ ~isValidEmail(req[r].body.email.s)
    => req[r].pc = "done" /\ req[r].resp.status = 400

\* C3: participants of every booking record is an integer-valued number >= 1;
\* "abc", "", 0, -5 and absent give 1 and "3" gives 3.
C3_ParticipantsInteger ==
  \A r \in Reqs :
    req[r].sheetsData.type = "booking" =>
      LET raw == req[r].body.participants
          p == req[r].sheetsData.participants
      IN /\ IsInteger(p)
         /\ NumGeq(p, Num(1))
         /\ raw \in {Str(<<"a", "b", "c">>), Str(<<>>), Num(0), Num(-5),
                     Undefined} => p = Num(1)
         /\ raw = Str(<<"3">>) => p = Num(3)

\* the record was built and handed to the sinks
Validated(q) == q.sheetsData # NoRecord

Responded(q) == q.respCount > 0

IdKey(kind) == IF kind = "contact" THEN "contactId" ELSE "bookingId"

KindName(kind) ==
  IF kind = "contact" THEN <<"c", "o", "n", "t", "a", "c", "t">>
  ELSE <<"b", "o", "o", "k">>

\* "<name>_<digits>" with the digits of the number t
IsIdOf(id, name, t) ==
  LET n == Len(name)
      digits == SubSeq(id, n + 2, Len(id))
  IN /\ Len(id) > n + 1
     /\ SubSeq(id, 1, n) = name
     /\ id[n + 1] = "_"
     /\ AllDigits(digits)
     /\ DigitsValue(digits) = t
     /\ (Len(digits) > 1 => digits[1] # "0")

\* C6: the id a handler mints is "<kind>_<digits>", kind being contact or
\* book and the digits the clock value read at the entry of the handler, and
\* the 200 response returns that id as contactId / bookingId.
C6_IdFormat ==
  \A r \in Reqs :
    Handled(req[r]) =>
      /\ IsIdOf(req[r].id, KindName(req[r].kind), req[r].idClock)
      /\ req[r].resp.status = 200 =>
           req[r].resp[IdKey(req[r].kind)] = req[r].id

C6_Witness ==
  \E r \in Reqs :
    /\ req[r].kind = "booking"
    /\ req[r].resp.status = 200
    /\ req[r].resp.bookingId = <<"b", "o", "o", "k", "_", "1", "0">>

\* C7: the 200 response of a booking carries in details.participants the
\* participant count of the record sent to the sinks (1 when participants is
\* absent) and as bookingId the bookingId of that record.
C7_BookingDetails ==
  \A r \in Reqs :
    req[r].kind = "booking" /\ req[r].resp.status = 200 =>
      /\ req[r].resp.details.participants = req[r].sheetsData.participants
      /\ req[r].resp.bookingId = req[r].sheetsData.bookingId
      /\ req[r].body.participants = Undefined =>
           req[r].resp.details.participants = Num(1)

C7_Witness ==
  \E r \in Reqs :
    /\ req[r].kind = "booking"
    /\ req[r].resp.status = 200
    /\ req[r].body.participants = Str(<<"-", "5">>)
    /\ req[r].resp.details.participants = Num(1)

\* C8: a 400 or 500 response sent after the id of the request was minted
\* carries that id as contactId / bookingId.
C8_FailureCarriesId ==
  \A r \in Reqs :
    req[r].resp.status \in {400, 500} /\ req[r].id # <<>> =>
      /\ IdKey(req[r].kind) \in DOMAIN req[r].resp
      /\ req[r].resp[IdKey(req[r].kind)] = req[r].id

\* the response without its clock-derived fields
Unclocked(resp) ==
  [k \in DOMAIN resp \ {"contactId", "bookingId"} |-> resp[k]]

\* C9: two requests of the same kind with the same body, handled with the
\* same email-transport configuration, get responses that are equal apart
\* from the clock-derived fields, whatever their sinks returned; emailSent
\* tells whether an email transport is configured.
C9_SinksDoNotShow ==
  \A r1 \in Reqs : \A r2 \in Reqs :
    /\ Responded(req[r1]) /\ Responded(req[r2])
    /\ req[r1].kind = req[r2].kind
    /\ req[r1].body = req[r2].body
    => /\ Unclocked(req[r1].resp) = Unclocked(req[r2].resp)
       /\ req[r1].resp.status = 200 => req[r1].resp.emailSent = transporter

C9_Witness ==
  \E r1 \in Reqs : \E r2 \in Reqs :
    /\ req[r1].resp.status = 200 /\ req[r2].resp.status = 200
    /\ req[r1].kind = req[r2].kind
    /\ req[r1].body = req[r2].body
    /\ req[r1].sheets.success /\ ~req[r2].sheets.success
    /\ ~req[r1].emailResult.success /\ req[r2].emailResult.success
    /\ req[r1].email = "settled" /\ req[r2].email = "settled"

OneResponse(q) ==
  /\ q.respCount <= 1
  /\ q.pc = "done" <=> q.respCount = 1
  /\ q.respCount = 1 => q.resp.status \in {400, 200, 500}
  /\ q.respCount = 0 => q.resp = NoResponse

\* C10: a request gets exactly one response, 400, 200 or 500, and once it
\* has been sent the handler takes no further step for that request.
C10_OneTerminalResponse ==
  /\ [](\A r \in Reqs : OneResponse(req[r]))
  /\ [][\A r \in Reqs : req[r].pc = "done" => req'[r] = req[r]]_vars

C10_Witness ==
  /\ \E r \in Reqs : req[r].pc = "done" /\ req[r].resp.status = 500
  /\ clock = MaxClock

\* C11: a 500 response comes only from a fault while the record is built: no
\* body makes the validation step end in 500 (not even one whose required
\* fields are present and are not strings), and no sink failure ends in 500.
C11_Only500FromRecord ==
  \A r \in Reqs :
    req[r].resp.status = 500 =>
      /\ req[r].fault = "record"
      /\ IsString(req[r].body.email)
      /\ req[r].webhookCalls = 0 /\ req[r].emailCalls = 0

\* C12: when no email transport was created at process start, no request ever
\* starts an email call (the promises of a request hold the webhook call
\* only), and a submission that passed validation is still answered 200 with
\* success:true and emailSent:false.
C12_NoTransportWebhookOnly ==
  ~transporter =>
    \A r \in Reqs :
      /\ req[r].emailCalls = 0
      /\ req[r].email = "none"
      /\ req[r].mail = NoMail
      /\ req[r].emailResult = NoResult
      /\ Validated(req[r]) => req[r].webhookCalls = 1
      /\ Validated(req[r]) /\ Responded(req[r]) =>
           /\ req[r].resp.status = 200
           /\ req[r].resp.success = TRUE
           /\ req[r].resp.emailSent = FALSE

C12_Witness ==
  \E r \in Reqs :
    /\ ~transporter
    /\ Validated(req[r])
    /\ req[r].pc = "done"
    /\ req[r].resp.status = 200
    /\ req[r].webhookCalls = 1
    /\ req[r].emailCalls = 0

\* C13: every record handed to a sink has all required fields of its kind
\* non-empty after trimming, the email included; a submission with a required
\* field of white space only is rejected and never dispatched.
C13_RecordFieldsNonEmpty ==
  \A r \in Reqs :
    Validated(req[r]) =>
      LET d == req[r].sheetsData
      IN /\ d.email # <<>>
         /\ IF d.type = "contact"
            THEN d.name # <<>> /\ d.subject # <<>> /\ d.message # <<>>
            ELSE /\ d.program # <<>> /\ d.firstName # <<>> /\ d.lastName # <<>>
                 /\ ~AbsentOrEmpty(d.date)

\* C14: the result of the webhook promise follows the HTTP status: success is
\* true exactly when the endpoint answered with a 2xx status.
C14_ResultReflectsStatus ==
  \A r \in Reqs :
    req[r].sheets.settled =>
      (req[r].sheets.success <=> req[r].sheets.outcome = "2xx")

\* C15: a sink call that fails (time-out, transport error, any rejection)
\* leaves its promise fulfilled with a result whose success is false; the
\* handler goes on after Promise.allSettled and its catch block is not entered
\* once a sink has been started.
C15_SinkFailureContained ==
  \A r \in Reqs :
    /\ req[r].sheets.settled =>
         /\ ~req[r].sheets.rejected
         /\ req[r].sheets.outcome = "rejected" => ~req[r].sheets.success
    /\ req[r].emailResult.settled =>
         /\ ~req[r].emailResult.rejected
         /\ req[r].emailResult.outcome = "rejected" =>
              ~req[r].emailResult.success
    /\ req[r].webhookCalls > 0 =>
         /\ req[r].fault = "none"
         /\ req[r].resp.status # 500

C15_Witness ==
  \E r \in Reqs :
    /\ req[r].sheets.settled /\ req[r].sheets.outcome = "rejected"
    /\ req[r].emailResult.settled /\ req[r].emailResult.outcome = "rejected"
    /\ req[r].pc = "done"
    /\ req[r].resp.status = 200

RequiredTruthy(q) == \A f \in RequiredFields(q.kind) : Truthy(q.body[f])

\* C16: a sink is started only after the validation of its request has
\* succeeded: a request answered 400 (fields missing or email without "@")
\* has no webhook call and no email call, and a request with a call started
\* has all required fields present and an email that contains "@".
C16_SinksOnlyAfterValidation ==
  \A r \in Reqs :
    /\ req[r].resp.status = 400 =>
         /\ req[r].webhookCalls = 0 /\ req[r].emailCalls = 0
         /\ req[r].webhook = "none" /\ req[r].email = "none"
         /\ req[r].sheetsData = NoRecord /\ req[r].mail = NoMail
    /\ req[r].webhookCalls > 0 \/ req[r].emailCalls > 0 =>
         /\ RequiredTruthy(req[r])
         /\ IsString(req[r].body.email)
         /\ includes(req[r].body.email.s, "@")

C16_Witness ==
  \E r \in Reqs :
    /\ req[r].pc = "done"
    /\ req[r].resp = InvalidEmailResponse
    /\ RequiredTruthy(req[r])
    /\ req[r].webhookCalls = 0
    /\ req[r].emailCalls = 0

C18_MailUsesRecord ==
  \A r \in Reqs :
    req[r].mail # NoMail =>
      LET d == req[r].sheetsData
          m == req[r].mail
      IN /\ m.replyTo = d.email
         /\ m.email = d.email
         /\ IF m.type = "contact"
            THEN m.name = d.name /\ m.subject = d.subject
                 /\ m.message = d.message
            ELSE /\ m.program = d.program
                 /\ m.firstName = d.firstName /\ m.lastName = d.lastName
                 /\ m.phone = d.phone
                 /\ Truthy(m.specialRequirements) =>
                      m.specialRequirements.s = d.specialRequirements

Blank(v) == ~Truthy(v) \/ (IsString(v) /\ trim(v.s) = <<>>)

\* C19: in every booking record handed to a sink, phone and
\* specialRequirements are non-empty: "Not provided" / "None" when the raw
\* value is absent, empty or white space only, the trimmed raw value otherwise.
C19_OptionalDefaults ==
  \A r \in Reqs :
    Validated(req[r]) /\ req[r].kind = "booking" =>
      LET d == req[r].sheetsData
          b == req[r].body
      IN /\ d.phone # <<>>
         /\ d.specialRequirements # <<>>
         /\ d.phone = IF Blank(b.phone) THEN NotProvided ELSE trim(b.phone.s)
         /\ d.specialRequirements =
              IF Blank(b.specialRequirements) THEN None
              ELSE trim(b.specialRequirements.s)

\* C20: with a transporter, the webhook call and the email call of a request
\* are started together, before the handler awaits: a request whose webhook
\* call was started has its email call started too, whether or not the webhook
\* call has settled.
C20_SinksStartedTogether ==
  \A r \in Reqs :
    /\ transporter /\ req[r].webhookCalls > 0 =>
         req[r].emailCalls = req[r].webhookCalls /\ req[r].email # "none"
    /\ req[r].emailCalls > 0 => req[r].webhookCalls > 0

C20_Witness ==
  \E r \in Reqs :
    /\ transporter
    /\ req[r].pc = "awaiting"
    /\ req[r].webhook = "pending"
    /\ req[r].email = "pending"

\* C21: two requests of the same kind get the same id exactly when their
\* handlers read the same clock millisecond at entry (so two submissions in
\* one millisecond share an id and two in different milliseconds never do),
\* and a contact id is never equal to a booking id.
C21_IdCollisions ==
  \A r1 \in Reqs : \A r2 \in Reqs :
    r1 # r2 /\ Handled(req[r1]) /\ Handled(req[r2]) =>
      IF req[r1].kind = req[r2].kind
      THEN req[r1].id = req[r2].id <=> req[r1].idClock = req[r2].idClock
      ELSE req[r1].id # req[r2].id

C21_Witness ==
  \E r1 \in Reqs : \E r2 \in Reqs :
    /\ r1 # r2
    /\ req[r1].kind = "contact" /\ req[r2].kind = "contact"
    /\ req[r1].resp.status = 200 /\ req[r2].resp.status = 200
    /\ req[r1].idClock = req[r2].idClock
    /\ req[r1].resp.contactId = req[r2].resp.contactId

SinkPending(q) == q.webhook = "pending" \/ q.email = "pending"

OwnEntry(q) ==
  IF q.kind = "contact" THEN ContactHandler(Sent(q.kind, q.body), q.idClock)
  ELSE BookingHandler(Sent(q.kind, q.body), q.idClock)

OwnOutcome(q) ==
  LET e == OwnEntry(q)
  IN /\ q.id = e.id
     /\ q.sheetsData = e.sheetsData
     /\ q.mail = e.mail
     /\ q.pc = "done" => q.resp = IF e.pc = "done" THEN e.resp ELSE Reply(e)

\* C23: requests in flight together do not affect one another: no step of a
\* handler reassigns the transporter, a step of one request leaves every
\* other request as it was, and the id, the record, the mail and the
\* response of a request are those its own body, the transporter set at
\* start-up and its own entry time give, whatever the interleaving.
C23_RequestsIndependent ==
  /\ [][/\ transporter' = transporter
        /\ \A r \in Reqs : \A p \in Reqs :
             r # p /\ req'[r] # req[r] => req'[p] = req[p]]_vars
  /\ [](\A r \in Reqs : Handled(req[r]) => OwnOutcome(req[r]))

C23_Witness ==
  \E r1 \in Reqs : \E r2 \in Reqs :
    /\ req[r1].kind # req[r2].kind
    /\ req[r2].pc = "awaiting" /\ SinkPending(req[r2])
    /\ req[r1].resp.status = 200
    /\ req[r1].idClock > req[r2].idClock

ServerAccepts(q) ==
  IF q.kind = "contact"
  THEN ~MissingContactFields(q.body) /\ ~IncludesThrows(q.body)
       /\ ~InvalidEmail(q.body)
  ELSE ~MissingBookingFields(q.body) /\ ~IncludesThrows(q.body)
       /\ ~InvalidEmail(q.body)

\* C24: what the front end's validation accepts, the server's validation
\* accepts: every request the page posts (contact data that passed
\* validateContactForm after sanitizeInput, booking data that passed
\* validateBookingData) passes the handler's required-field and email tests,
\* and is never answered 400.
C24_FrontEndImpliesServer ==
  \A r \in Reqs :
    req[r].pc # "none" =>
      /\ ServerAccepts(req[r])
      /\ req[r].resp.status # 400

C24_Witness ==
  \E r \in Reqs :
    /\ req[r].kind = "contact"
    /\ req[r].resp.status = 200
    /\ req[r].body = page.data
    /\ page.data.email # page.form.email

NoEdgeSpace(s) ==
  s = <<>> \/ (Head(s) \notin WhiteSpace /\ s[Len(s)] \notin WhiteSpace)

Sanitized(v) ==
  /\ sanitizeInput(v) = v
  /\ NoEdgeSpace(v.s)
  /\ \A i \in 1..Len(v.s) : v.s[i] \notin {"<", ">"}
  /\ Len(v.s) <= SanitizeLimit

\* C27: sanitizeInput is idempotent: a value it returned is returned
\* unchanged when sanitized again, has no leading or trailing white space,
\* no "<" or ">" and at most 1000 characters.
C27_SanitizeIdempotent ==
  page.kind = "contact" /\ page.data # EmptyBody =>
    /\ Sanitized(page.data.name)
    /\ Sanitized(page.data.email)
    /\ Sanitized(page.data.subject)
    /\ Sanitized(page.data.message)

\* C26: after a click on an FAQ question at most one item is active: a click
\* on an item that was not active leaves that item alone active, a click on
\* the active item leaves no item active.
C26_OneFaqActive ==
  /\ [](faq.clicked # 0 => Cardinality(faq.active) <= 1)
  /\ [][\A i \in FaqItems :
          faq'.clicked = i /\ faq' # faq =>
            faq'.active = IF i \in faq.active THEN {} ELSE {i}]_vars

C26_Witness ==
  /\ faq.clicked # 0
  /\ faq.active = {}
  /\ Cardinality(faq.withQuestion) > 1

\* C25: a call of handleContactFormSubmission leaves the submit button
\* enabled with the label "Send Message" at some later time on every path
\* (form rejected, response not ok, fetch error, success after the timer),
\* and the button is disabled as long as the request is in flight.
C25_ButtonComesBack ==
  /\ page.button.disabled ~> (page.button = IdleButton)
  /\ [](page.phase \in {"inflight", "shown"} => page.button = SendingButton)
  /\ [](page.phase = "idle" => page.button = IdleButton)

C25_Witness ==
  /\ page.kind = "contact"
  /\ page.phase = "idle"
  /\ page.form = ResetForm
  /\ page.button = IdleButton
  /\ \E r \in Reqs : req[r].resp.status = 200

====
